---- MODULE Spec2Model ----
(***************************************************************************)
(* The journal backend (src/backend/src/routes/journal.ts, the handlers    *)
(* registered behind requireAuth) over the journal_entries table           *)
(* (src/backend/src/db/schema.ts), and the checklist encoding used by the  *)
(* entry screen (src/app/(tabs)/(home)/index.ios.tsx), and the HTTP        *)
(* helpers of the client (src/utils/api.ts); the entry screen issuing its  *)
(* requests through these helpers (SpecScreen), and the PUT and DELETE     *)
(* handlers interleaved at their awaits (SpecRace).                        *)
(*                                                                         *)
(* Texts are sequences of one-character strings, so that emptiness and     *)
(* whitespace are computed, not assumed.  A request body is a function     *)
(* from the field names it carries to their values: a field is "present"   *)
(* exactly when it is in the DOMAIN of the body.                           *)
(***************************************************************************)
EXTENDS Integers, Sequences, FiniteSets, TLC

VARIABLES
    journalEntries,   \* the rows of table journal_entries
    issuedIds,        \* the uuids gen_random_uuid() has handed out so far
    now,              \* the database clock, read by defaultNow()
    appNow,           \* the server's clock, read by new Date()
    req,              \* the HTTP request being answered (NoReq when idle)
    resp,             \* the reply to req (NoResp when idle)
    checklistItems,   \* the entry screen's checklist editor state
    client,           \* the latest call of an api.ts helper (NoCall when none)
    screen,           \* the entry screen: its entry list and its requests in flight
    handlers          \* the handler invocations running side by side, each at its await

vars == <<journalEntries, issuedIds, now, appNow, req, resp, checklistItems, client, screen, handlers>>

----------------------------------------------------------------------------
(* Bounds *)

MaxEntries == 2       \* uuids available to gen_random_uuid()
MaxTime == 1          \* the clock runs 0..MaxTime
MaxItems == 2         \* longest checklist drawn for the round trip

----------------------------------------------------------------------------
(* Input universes *)

Users == {"u1", "u2"}
NoSession == "none"                 \* requireAuth answered 401 and returned null
Callers == Users \cup {NoSession}
EntryIds == 1..MaxEntries
Times == 0..MaxTime

SP == " "
Empty == <<>>
Blank == <<SP>>
TitleInputs == {Empty, Blank, <<"a">>}
ContentInputs == {Empty, Blank, <<"c">>}
MoodInputs == {Empty, <<"h">>}
TypeInputs == {"note", "checklist", "list"}
\* SQL NULL in the nullable mood column.  A text is a sequence of
\* one-character strings, so this value is no text.
Null == <<"NULL">>

Fields == {"title", "content", "mood", "type", "userId"}

NoReq == [op |-> "none"]
NoResp == [status |-> 0]
NoCall == [fn |-> "none", backendUrl |-> ""]
NoScreen == [mounted |-> FALSE]
NoHandlers == <<>>

----------------------------------------------------------------------------
(* Text helpers *)

RECURSIVE TrimStart(_)
TrimStart(s) ==
    IF s # <<>> /\ Head(s) = SP THEN TrimStart(Tail(s)) ELSE s

RECURSIVE TrimEnd(_)
TrimEnd(s) ==
    IF s # <<>> /\ s[Len(s)] = SP THEN TrimEnd(SubSeq(s, 1, Len(s) - 1)) ELSE s

Trim(s) == TrimEnd(TrimStart(s))

\* JavaScript's !v for v a string or undefined: true for a missing field and
\* for the empty string, false for every other string (whitespace included).
Not(body, field) == field \notin DOMAIN body \/ body[field] = Empty


----------------------------------------------------------------------------
(* The checklist encoding of the entry screen: JSON.stringify of an array  *)
(* of {text, completed} objects, and JSON.parse of such a text.            *)

Q == "\""
BS == "\\"

KeyText == <<"{", Q, "t", "e", "x", "t", Q, ":", Q>>
KeyCompleted == <<",", Q, "c", "o", "m", "p", "l", "e", "t", "e", "d", Q, ":">>
TrueLit == <<"t", "r", "u", "e">>
FalseLit == <<"f", "a", "l", "s", "e">>

\* The characters of a string between its quotes: a quote and a backslash
\* are written with a backslash before them.
RECURSIVE QuoteChars(_)
QuoteChars(t) ==
    IF t = <<>> THEN <<>>
    ELSE (IF Head(t) \in {Q, BS} THEN <<BS, Head(t)>> ELSE <<Head(t)>>)
         \o QuoteChars(Tail(t))

StringifyItem(item) ==
    KeyText \o QuoteChars(item.text) \o <<Q>> \o KeyCompleted
        \o (IF item.completed THEN TrueLit ELSE FalseLit) \o <<"}">>

RECURSIVE StringifyItems(_)
StringifyItems(items) ==
    IF items = <<>> THEN <<>>
    ELSE IF Len(items) = 1 THEN StringifyItem(items[1])
    ELSE StringifyItem(Head(items)) \o <<",">> \o StringifyItems(Tail(items))

JSONStringify(items) == <<"[">> \o StringifyItems(items) \o <<"]">>

HasAt(s, i, lit) ==
    i + Len(lit) - 1 <= Len(s) /\ SubSeq(s, i, i + Len(lit) - 1) = lit

\* The string contents from position i up to and over the closing quote.
RECURSIVE ReadChars(_, _, _)
ReadChars(s, i, acc) ==
    IF i > Len(s) THEN [ok |-> FALSE, text |-> acc, next |-> i]
    ELSE IF s[i] = Q THEN [ok |-> TRUE, text |-> acc, next |-> i + 1]
    ELSE IF s[i] = BS
    THEN IF i + 1 <= Len(s) /\ s[i + 1] \in {Q, BS}
         THEN ReadChars(s, i + 2, Append(acc, s[i + 1]))
         ELSE [ok |-> FALSE, text |-> acc, next |-> i]
    ELSE ReadChars(s, i + 1, Append(acc, s[i]))

\* One {"text":...,"completed":...} object starting at position i.
ReadItem(s, i) ==
    LET fail == [ok |-> FALSE, item |-> [text |-> <<>>, completed |-> FALSE], next |-> i]
        t == ReadChars(s, i + Len(KeyText), <<>>)
        b == t.next + Len(KeyCompleted)
    IN
    IF ~HasAt(s, i, KeyText) THEN fail
    ELSE IF ~t.ok \/ ~HasAt(s, t.next, KeyCompleted) THEN fail
    ELSE IF HasAt(s, b, TrueLit \o <<"}">>)
    THEN [ok |-> TRUE, item |-> [text |-> t.text, completed |-> TRUE],
          next |-> b + Len(TrueLit) + 1]
    ELSE IF HasAt(s, b, FalseLit \o <<"}">>)
    THEN [ok |-> TRUE, item |-> [text |-> t.text, completed |-> FALSE],
          next |-> b + Len(FalseLit) + 1]
    ELSE fail

RECURSIVE ReadItems(_, _, _)
ReadItems(s, i, acc) ==
    LET r == ReadItem(s, i) IN
    IF ~r.ok \/ r.next > Len(s) THEN [ok |-> FALSE, items |-> <<>>]
    ELSE IF s[r.next] = "," THEN ReadItems(s, r.next + 1, Append(acc, r.item))
    ELSE IF s[r.next] = "]" /\ r.next = Len(s)
    THEN [ok |-> TRUE, items |-> Append(acc, r.item)]
    ELSE [ok |-> FALSE, items |-> <<>>]

\* ok is FALSE where JSON.parse throws.
JSONParse(s) ==
    IF s = <<"[", "]">> THEN [ok |-> TRUE, items |-> <<>>]
    ELSE IF s # <<>> /\ s[1] = "[" THEN ReadItems(s, 2, <<>>)
    ELSE [ok |-> FALSE, items |-> <<>>]

ItemTexts == {Empty, <<"a">>, <<Q, "b">>, <<BS>>}
ChecklistItems == [text: ItemTexts, completed: BOOLEAN]
ItemSeqs == UNION {[1..n -> ChecklistItems] : n \in 0..MaxItems}

----------------------------------------------------------------------------
(* Request bodies *)

\* Every body that carries any subset of the five fields, each with any of
\* the input values; userId is a field the handlers do not know.
FullBodies ==
    [title: TitleInputs, content: ContentInputs, mood: MoodInputs,
     type: TypeInputs, userId: {"u2"}]

Bodies == {[f \in S |-> full[f]] : S \in SUBSET Fields, full \in FullBodies}

\* A few bodies for the runs with several users and several entries: a
\* note with or without a mood and with or without a userId, and the empty
\* body.
PlainBodies ==
    {[f \in S |-> full[f]] :
        S \in {T \cup {"title", "content"} : T \in SUBSET {"mood", "userId"}},
        full \in [title: {<<"a">>}, content: {<<"c">>}, mood: MoodInputs, userId: Users]}
    \cup {[f \in {} |-> Empty]}

PlainPatches ==
    {[f \in {} |-> Empty], [mood |-> <<"h">>], [userId |-> "u1"], [type |-> "list"]}

----------------------------------------------------------------------------
(* The queries of journal.ts over the table *)

\* The select of the routes registered without requireAuth: every row.
SelectAllUsers(table, userId) == table

\* .where(eq(journalEntries.userId, userId))
SelectByUser(table, userId) == {e \in table : e.userId = userId}

\* The select of the routes registered without requireAuth: by id alone.
SelectByIdAlone(table, id, userId) == {e \in table : e.id = id}

\* .where(and(eq(journalEntries.id, id), eq(journalEntries.userId, userId)))
SelectByIdAndUser(table, id, userId) ==
    {e \in table : e.id = id /\ e.userId = userId}

\* .orderBy(desc(journalEntries.createdAt)): the database returns the rows
\* in some order in which createdAt never increases; rows with equal
\* createdAt come in whatever order the scan produces.
OrderByCreatedAtDesc(rows) ==
    {s \in [1..Cardinality(rows) -> rows] :
        /\ \A i, j \in DOMAIN s : i # j => s[i] # s[j]
        /\ \A i, j \in DOMAIN s : i < j => s[i].createdAt >= s[j].createdAt}

\* An insert that strips backslashes from the content before storing it.
InsertValuesSanitized(id, userId, body, type, clock) ==
    [id |-> id,
     userId |-> userId,
     title |-> body.title,
     content |-> SelectSeq(body.content, LAMBDA c : c # BS),
     mood |-> IF Not(body, "mood") THEN Null ELSE body.mood,
     type |-> type,
     createdAt |-> clock,
     updatedAt |-> clock]

\* An insert that leaves the mood column out.
InsertValuesWithoutMood(id, userId, body, type, clock) ==
    [id |-> id,
     userId |-> userId,
     title |-> body.title,
     content |-> body.content,
     mood |-> Null,
     type |-> type,
     createdAt |-> clock,
     updatedAt |-> clock]

\* An insert that lets the body name the owner.
InsertValuesOwnerFromBody(id, userId, body, type, clock) ==
    [id |-> id,
     userId |-> IF "userId" \in DOMAIN body THEN body.userId ELSE userId,
     title |-> body.title,
     content |-> body.content,
     mood |-> IF Not(body, "mood") THEN Null ELSE body.mood,
     type |-> type,
     createdAt |-> clock,
     updatedAt |-> clock]

\* .insert(journalEntries).values({userId, title, content, mood: mood || null, type})
\* with the column defaults of schema.ts: id, created_at, updated_at.
InsertValues(id, userId, body, type, clock) ==
    [id |-> id,
     userId |-> userId,
     title |-> body.title,
     content |-> body.content,
     mood |-> IF Not(body, "mood") THEN Null ELSE body.mood,
     type |-> type,
     createdAt |-> clock,
     updatedAt |-> clock]

\* An update object that names every column, a missing field as its default.
UpdateDataAllColumns(body, clock) ==
    [f \in {"updatedAt", "title", "content", "mood", "type"} |->
        IF f = "updatedAt" THEN clock
        ELSE IF f \in DOMAIN body THEN body[f]
        ELSE IF f = "type" THEN "note"
        ELSE IF f = "mood" THEN Null
        ELSE Empty]

\* An update object that copies every field of the body.
UpdateDataEveryField(body, clock) ==
    [f \in {"updatedAt"} \cup DOMAIN body |->
        IF f = "updatedAt" THEN clock ELSE body[f]]

\* An update object that stamps updatedAt only next to a changed column.
UpdateDataStampedOnChange(body, clock) ==
    [f \in (IF DOMAIN body \cap {"title", "content", "mood", "type"} = {}
            THEN {} ELSE {"updatedAt"})
           \cup (DOMAIN body \cap {"title", "content", "mood", "type"}) |->
        IF f = "updatedAt" THEN clock ELSE body[f]]

\* updateData: updatedAt always, and each of title, content, mood, type
\* that the body carries.
UpdateData(body, clock) ==
    [f \in {"updatedAt"} \cup (DOMAIN body \cap {"title", "content", "mood", "type"}) |->
        IF f = "updatedAt" THEN clock ELSE body[f]]

\* .update(journalEntries).set(updateData): the columns of updateData are
\* overwritten, the others keep their values.
SetColumns(row, updateData) ==
    [c \in DOMAIN row |-> IF c \in DOMAIN updateData THEN updateData[c] ELSE row[c]]

\* A type check that lets every value through.
AnyType(type) == TRUE

\* type !== 'note' && type !== 'checklist' is the rejection; this is its negation.
ValidType(type) == type = "note" \/ type = "checklist"

NotFound == [error |-> "Journal entry not found"]
Unauthorized == [error |-> "Unauthorized"]
TitleContentRequired == [error |-> "Title and content are required"]
BadType == [error |-> "Type must be \"note\" or \"checklist\""]

Reply(request, status, body) ==
    /\ req' = request
    /\ resp' = [status |-> status, body |-> body]

----------------------------------------------------------------------------
(* The handlers.  caller is the user of the session requireAuth resolved  *)
(* from the bearer token, or NoSession when it answered 401 itself.       *)

\* GET /api/journal/entries
ListEntries(caller) ==
    LET request == [op |-> "list", caller |-> caller] IN
    /\ UNCHANGED <<journalEntries, issuedIds>>
    /\ IF caller = NoSession
       THEN Reply(request, 401, Unauthorized)
       ELSE \E entries \in OrderByCreatedAtDesc(SelectByUser(journalEntries, caller)) :
                Reply(request, 200, entries)

\* GET /api/journal/entries/:id
GetEntry(caller, id) ==
    LET request == [op |-> "get", caller |-> caller, id |-> id]
        entry == SelectByIdAndUser(journalEntries, id, caller)
    IN
    /\ UNCHANGED <<journalEntries, issuedIds>>
    /\ IF caller = NoSession
       THEN Reply(request, 401, Unauthorized)
       ELSE IF entry = {}
       THEN Reply(request, 404, NotFound)
       ELSE Reply(request, 200, CHOOSE e \in entry : TRUE)

\* A POST that stores whatever type the body carries.
CreateEntryAnyType(caller, body) ==
    LET request == [op |-> "create", caller |-> caller, body |-> body]
        type == IF "type" \in DOMAIN body THEN body.type ELSE "note"
    IN
    IF caller = NoSession
    THEN Reply(request, 401, Unauthorized) /\ UNCHANGED <<journalEntries, issuedIds>>
    ELSE IF Not(body, "title") \/ Not(body, "content")
    THEN Reply(request, 400, TitleContentRequired) /\ UNCHANGED <<journalEntries, issuedIds>>
    ELSE \E id \in EntryIds \ issuedIds :
            LET created == InsertValues(id, caller, body, type, now) IN
            /\ journalEntries' = journalEntries \cup {created}
            /\ issuedIds' = issuedIds \cup {id}
            /\ Reply(request, 201, created)

\* POST /api/journal/entries
CreateEntry(caller, body) ==
    LET request == [op |-> "create", caller |-> caller, body |-> body]
        type == IF "type" \in DOMAIN body THEN body.type ELSE "note"
    IN
    IF caller = NoSession
    THEN Reply(request, 401, Unauthorized) /\ UNCHANGED <<journalEntries, issuedIds>>
    ELSE IF Not(body, "title") \/ Not(body, "content")
    THEN Reply(request, 400, TitleContentRequired) /\ UNCHANGED <<journalEntries, issuedIds>>
    ELSE IF ~ValidType(type)
    THEN Reply(request, 400, BadType) /\ UNCHANGED <<journalEntries, issuedIds>>
    ELSE \E id \in EntryIds \ issuedIds :
            LET created == InsertValues(id, caller, body, type, now) IN
            /\ journalEntries' = journalEntries \cup {created}
            /\ issuedIds' = issuedIds \cup {id}
            /\ Reply(request, 201, created)

\* The PUT of the routes registered without requireAuth, behind the session
\* check: the existing row is looked up by id alone.
UpdateEntryAnyOwner(caller, id, body) ==
    LET request == [op |-> "update", caller |-> caller, id |-> id, body |-> body]
        existing == {e \in journalEntries : e.id = id}
    IN
    /\ UNCHANGED issuedIds
    /\ IF caller = NoSession
       THEN Reply(request, 401, Unauthorized) /\ UNCHANGED journalEntries
       ELSE IF existing = {}
       THEN Reply(request, 404, NotFound) /\ UNCHANGED journalEntries
       ELSE IF "type" \in DOMAIN body /\ ~ValidType(body.type)
       THEN Reply(request, 400, BadType) /\ UNCHANGED journalEntries
       ELSE LET updateData == UpdateData(body, appNow)
                updated == {SetColumns(e, updateData) : e \in existing}
            IN
            /\ journalEntries' = {e \in journalEntries : e.id # id} \cup updated
            /\ Reply(request, 200, CHOOSE e \in updated : TRUE)

\* A PUT that validates the type before it looks the entry up.
UpdateEntryValidatingFirst(caller, id, body) ==
    LET request == [op |-> "update", caller |-> caller, id |-> id, body |-> body]
        existing == SelectByIdAndUser(journalEntries, id, caller)
    IN
    /\ UNCHANGED issuedIds
    /\ IF caller = NoSession
       THEN Reply(request, 401, Unauthorized) /\ UNCHANGED journalEntries
       ELSE IF "type" \in DOMAIN body /\ ~ValidType(body.type)
       THEN Reply(request, 400, BadType) /\ UNCHANGED journalEntries
       ELSE IF existing = {}
       THEN Reply(request, 404, NotFound) /\ UNCHANGED journalEntries
       ELSE LET updateData == UpdateData(body, appNow)
                updated == {SetColumns(e, updateData) : e \in {x \in journalEntries : x.id = id}}
            IN
            /\ journalEntries' = {e \in journalEntries : e.id # id} \cup updated
            /\ Reply(request, 200, CHOOSE e \in updated : TRUE)

\* PUT /api/journal/entries/:id
UpdateEntry(caller, id, body) ==
    LET request == [op |-> "update", caller |-> caller, id |-> id, body |-> body]
        existing == SelectByIdAndUser(journalEntries, id, caller)
    IN
    /\ UNCHANGED issuedIds
    /\ IF caller = NoSession
       THEN Reply(request, 401, Unauthorized) /\ UNCHANGED journalEntries
       ELSE IF existing = {}
       THEN Reply(request, 404, NotFound) /\ UNCHANGED journalEntries
       ELSE IF "type" \in DOMAIN body /\ ~ValidType(body.type)
       THEN Reply(request, 400, BadType) /\ UNCHANGED journalEntries
       ELSE LET updateData == UpdateData(body, appNow)
                \* .where(eq(journalEntries.id, id)).returning()
                updated == {SetColumns(e, updateData) : e \in {x \in journalEntries : x.id = id}}
            IN
            /\ journalEntries' = {e \in journalEntries : e.id # id} \cup updated
            /\ Reply(request, 200, CHOOSE e \in updated : TRUE)

\* A delete that answers success and keeps the row.
DeleteEntryKeepingRow(caller, id) ==
    LET request == [op |-> "delete", caller |-> caller, id |-> id]
        existing == SelectByIdAndUser(journalEntries, id, caller)
    IN
    /\ UNCHANGED <<issuedIds, journalEntries>>
    /\ IF caller = NoSession
       THEN Reply(request, 401, Unauthorized)
       ELSE IF existing = {}
       THEN Reply(request, 404, NotFound)
       ELSE Reply(request, 200, [success |-> TRUE])

\* The DELETE of the routes registered without requireAuth: no session is
\* asked for and the row is looked up by id alone.
DeleteEntryWithoutAuth(caller, id) ==
    LET request == [op |-> "delete", caller |-> caller, id |-> id]
        existing == {e \in journalEntries : e.id = id}
    IN
    /\ UNCHANGED issuedIds
    /\ IF existing = {}
       THEN Reply(request, 404, NotFound) /\ UNCHANGED journalEntries
       ELSE /\ journalEntries' = {e \in journalEntries : e.id # id}
            /\ Reply(request, 200, [success |-> TRUE])

\* DELETE /api/journal/entries/:id
DeleteEntry(caller, id) ==
    LET request == [op |-> "delete", caller |-> caller, id |-> id]
        existing == SelectByIdAndUser(journalEntries, id, caller)
    IN
    /\ UNCHANGED issuedIds
    /\ IF caller = NoSession
       THEN Reply(request, 401, Unauthorized) /\ UNCHANGED journalEntries
       ELSE IF existing = {}
       THEN Reply(request, 404, NotFound) /\ UNCHANGED journalEntries
       ELSE /\ journalEntries' = {e \in journalEntries : e.id # id}
            /\ Reply(request, 200, [success |-> TRUE])

----------------------------------------------------------------------------
(* Requests arriving from a set of callers, for a set of ids and bodies *)

ListBy(callers) ==
    \E u \in callers : ListEntries(u) /\ UNCHANGED <<now, appNow, checklistItems, client, screen, handlers>>

GetBy(callers, ids) ==
    \E u \in callers, id \in ids : GetEntry(u, id) /\ UNCHANGED <<now, appNow, checklistItems, client, screen, handlers>>

CreateWith(callers, bodies) ==
    \E u \in callers, b \in bodies : CreateEntry(u, b) /\ UNCHANGED <<now, appNow, checklistItems, client, screen, handlers>>

UpdateWith(callers, ids, bodies) ==
    \E u \in callers, id \in ids, b \in bodies :
        UpdateEntry(u, id, b) /\ UNCHANGED <<now, appNow, checklistItems, client, screen, handlers>>

DeleteBy(callers, ids) ==
    \E u \in callers, id \in ids : DeleteEntry(u, id) /\ UNCHANGED <<now, appNow, checklistItems, client, screen, handlers>>

\* The reply has been sent; the server waits for the next request.
Done ==
    /\ req # NoReq
    /\ req' = NoReq
    /\ resp' = NoResp
    /\ UNCHANGED <<journalEntries, issuedIds, now, appNow, checklistItems, client, screen, handlers>>

\* Time passes, the two clocks reading the same.
Tick ==
    /\ now < MaxTime
    /\ appNow < MaxTime
    /\ now' = now + 1
    /\ appNow' = appNow + 1
    /\ UNCHANGED <<journalEntries, issuedIds, req, resp, checklistItems, client, screen, handlers>>

Init ==
    /\ journalEntries = {}
    /\ issuedIds = {}
    /\ now = 0
    /\ appNow = 0
    /\ req = NoReq
    /\ resp = NoResp
    /\ checklistItems = <<>>
    /\ client = NoCall
    /\ screen = NoScreen
    /\ handlers = NoHandlers

Idle == req = NoReq

----------------------------------------------------------------------------
(* Spec: every caller, every id, the plain bodies; one request at a time,  *)
(* req and resp holding the exchange until the reply is sent.              *)

Next ==
    \/ Idle /\ ListBy(Callers)
    \/ Idle /\ GetBy(Callers, EntryIds)
    \/ Idle /\ CreateWith(Callers, PlainBodies)
    \/ Idle /\ UpdateWith(Callers, EntryIds, PlainPatches)
    \/ Idle /\ DeleteBy(Callers, EntryIds)
    \/ Idle /\ Tick
    \/ Done

Spec == Init /\ [][Next]_vars

----------------------------------------------------------------------------
(* SpecFields: one user keeping a single entry at a time, with every body. *)

FieldsNext ==
    \/ Idle /\ ListBy({"u1"})
    \/ Idle /\ GetBy({"u1"}, EntryIds)
    \/ Idle /\ journalEntries = {} /\ CreateWith({"u1"}, Bodies)
    \/ Idle /\ UpdateWith({"u1"}, EntryIds, Bodies)
    \/ Idle /\ DeleteBy({"u1"}, EntryIds)
    \/ Idle /\ Tick
    \/ Done

SpecFields == Init /\ [][FieldsNext]_vars

----------------------------------------------------------------------------
(* SpecList: list requests following one another, req and resp keeping the *)
(* latest exchange.                                                        *)

ListNext ==
    \/ ListBy(Users)
    \/ CreateWith(Users, {[title |-> <<"a">>, content |-> <<"c">>]})
    \/ DeleteBy(Users, EntryIds)
    \/ Tick

SpecList == Init /\ [][ListNext]_vars

----------------------------------------------------------------------------
(* SpecRoundTrip: the screen holds some checklist, a user saves it as a    *)
(* new checklist entry (saveEntry's POST) and the entry is fetched by id.  *)

RoundTripInit ==
    /\ journalEntries = {}
    /\ issuedIds = {}
    /\ now = 0
    /\ appNow = 0
    /\ req = NoReq
    /\ resp = NoResp
    /\ checklistItems \in ItemSeqs
    /\ client = NoCall
    /\ screen = NoScreen
    /\ handlers = NoHandlers

\* body: JSON.stringify({title, content: JSON.stringify(items), mood, type})
\* with no mood selected.
ChecklistBody(items) ==
    [title |-> <<"a">>, content |-> JSONStringify(items), type |-> "checklist"]

RoundTripNext ==
    \/ Idle /\ journalEntries = {} /\ CreateWith(Users, {ChecklistBody(checklistItems)})
    \/ Idle /\ GetBy(Users, EntryIds)
    \/ Idle /\ Tick
    \/ Done

SpecRoundTrip == RoundTripInit /\ [][RoundTripNext]_vars

----------------------------------------------------------------------------
(* SpecClocks: the database and the server each read their own clock.      *)
(* created_at and the first updated_at come from the database's now()      *)
(* (schema.ts), a PUT's updatedAt from the server's new Date()            *)
(* (journal.ts); neither clock runs backwards, and nothing ties one to the *)
(* other.                                                                  *)

TickDatabase ==
    /\ now < MaxTime
    /\ now' = now + 1
    /\ UNCHANGED <<journalEntries, issuedIds, appNow, req, resp, checklistItems, client, screen, handlers>>

TickServer ==
    /\ appNow < MaxTime
    /\ appNow' = appNow + 1
    /\ UNCHANGED <<journalEntries, issuedIds, now, req, resp, checklistItems, client, screen, handlers>>

ClocksNext ==
    \/ Idle /\ GetBy({"u1", NoSession}, EntryIds)
    \/ Idle /\ CreateWith({"u1", NoSession}, PlainBodies)
    \/ Idle /\ UpdateWith({"u1", NoSession}, EntryIds, PlainPatches)
    \/ Idle /\ DeleteBy({"u1", NoSession}, EntryIds)
    \/ Idle /\ TickDatabase
    \/ Idle /\ TickServer
    \/ Done

SpecClocks == Init /\ [][ClocksNext]_vars

----------------------------------------------------------------------------
(* The HTTP helpers of src/utils/api.ts.  A JavaScript object is the       *)
(* sequence of its <<key, value>> pairs in insertion order, keys distinct  *)
(* and case-sensitive; a header value is a tuple of words.                 *)

BackendUrls == {"", "https://backend"}

\* A configuration check that always passes.
BackendAssumedConfigured(backendUrl) == TRUE

\* !!BACKEND_URL && BACKEND_URL.length > 0
isBackendConfigured(backendUrl) == backendUrl # ""

HasKey(obj, key) == \E i \in DOMAIN obj : obj[i][1] = key

\* obj[key] = value: an existing key keeps its place, a new one goes last.
SetKey(obj, key, value) ==
    IF HasKey(obj, key)
    THEN [i \in DOMAIN obj |-> IF obj[i][1] = key THEN <<key, value>> ELSE obj[i]]
    ELSE Append(obj, <<key, value>>)

\* {...base, ...extra}
RECURSIVE Spread(_, _)
Spread(base, extra) ==
    IF extra = <<>> THEN base
    ELSE Spread(SetKey(base, Head(extra)[1], Head(extra)[2]), Tail(extra))

\* Header names are matched without regard to case: fetch lower-cases the
\* keys of the headers object.
LowerCase(name) ==
    CASE name = "Authorization" -> "authorization"
      [] name = "Content-Type" -> "content-type"
      [] name = "X-Client" -> "x-client"
      [] OTHER -> name

\* Headers.append: a name the list already has gets the value joined to its
\* values ("v1, v2"), a new name is added.
AppendHeader(headers, name, value) ==
    IF HasKey(headers, name)
    THEN [i \in DOMAIN headers |->
            IF headers[i][1] = name
            THEN <<name, Append(headers[i][2], value)>>
            ELSE headers[i]]
    ELSE Append(headers, <<name, <<value>>>>)

\* The header list fetch builds from a headers object: each key appended
\* under its lower-cased name, in insertion order.
RECURSIVE FetchHeaders(_, _)
FetchHeaders(headers, obj) ==
    IF obj = <<>> THEN headers
    ELSE FetchHeaders(AppendHeader(headers, LowerCase(Head(obj)[1]), Head(obj)[2]),
                      Tail(obj))

\* The values a request carries under a lower-case header name.
HeaderValues(headers, name) ==
    IF HasKey(headers, name)
    THEN (CHOOSE h \in {headers[i] : i \in DOMAIN headers} : h[1] = name)[2]
    ELSE <<>>

JsonContentType == <<"application/json">>

\* `Bearer ${token}`
Bearer(token) == <<"Bearer", token>>

\* What the network gives back to fetch: a response, or a rejection.
Statuses == {200, 201, 204, 299, 300, 400, 401, 404, 500}
Answers ==
    [kind: {"response"}, status: Statuses, text: {"{}", "oops"}]
    \cup {[kind |-> "rejected"]}

\* response.ok
Ok(status) == 200 <= status /\ status <= 299

ConfigError == [error |-> "Backend URL not configured. Please rebuild the app."]
AuthError == [error |-> "Not authenticated. Please sign in."]
NetworkError == [error |-> "Network request failed"]
ParseError == [error |-> "JSON Parse error"]

\* new Error(`API error: ${response.status} - ${text}`)
ApiError(status, text) == [error |-> "API error", status |-> status, text |-> text]

\* response.json(): the text parsed, or a rejection when it is no JSON.
ResponseJson(text) ==
    IF text = "{}" THEN [data |-> "{}"] ELSE ParseError

\* apiCall(endpoint, options): the requests it sends and what it resolves
\* or rejects with, when the network answers its request with answer.
apiCall(backendUrl, endpoint, options, answer) ==
    IF ~isBackendConfigured(backendUrl)
    THEN [requests |-> <<>>, result |-> ConfigError]
    ELSE LET request ==
                 [url |-> <<backendUrl, endpoint>>,
                  method |-> options.method,
                  body |-> options.body,
                  headers |-> FetchHeaders(<<>>,
                      Spread(<< <<"Content-Type", JsonContentType>> >>, options.headers))]
         IN [requests |-> <<request>>,
             result |-> IF answer.kind = "rejected" THEN NetworkError
                        ELSE IF ~Ok(answer.status) THEN ApiError(answer.status, answer.text)
                        ELSE ResponseJson(answer.text)]

\* What authClient.getSession() resolves to: null, {data: null},
\* {data: {session: {}}}, or a session with a token.
Tokens == {"t1", "t2"}
Sessions ==
    {[kind |-> "null"], [kind |-> "nodata"], [kind |-> "notoken"]}
    \cup [kind: {"session"}, token: Tokens \cup {""}]

\* session?.data?.session?.token, "" standing for undefined as well.
TokenOf(session) == IF session.kind = "session" THEN session.token ELSE ""

\* authenticatedApiCall(endpoint, options)
authenticatedApiCall(backendUrl, session, endpoint, options, answer) ==
    IF TokenOf(session) = ""
    THEN [requests |-> <<>>, result |-> AuthError]
    ELSE apiCall(backendUrl, endpoint,
                 [options EXCEPT !.headers =
                     SetKey(Spread(<<>>, options.headers),
                            "Authorization", Bearer(TokenOf(session)))],
                 answer)

ApiFns == {"apiCall", "apiGet", "apiPost", "apiPut", "apiPatch", "apiDelete"}
AuthenticatedFns ==
    {"authenticatedApiCall", "authenticatedGet", "authenticatedPost",
     "authenticatedPut", "authenticatedPatch", "authenticatedDelete"}

\* The options a verb helper passes on: its method, a body for all but GET,
\* no headers.
VerbOptions(fn) ==
    CASE fn \in {"apiGet", "authenticatedGet"} ->
            [method |-> "GET", body |-> FALSE, headers |-> <<>>]
      [] fn \in {"apiPost", "authenticatedPost"} ->
            [method |-> "POST", body |-> TRUE, headers |-> <<>>]
      [] fn \in {"apiPut", "authenticatedPut"} ->
            [method |-> "PUT", body |-> TRUE, headers |-> <<>>]
      [] fn \in {"apiPatch", "authenticatedPatch"} ->
            [method |-> "PATCH", body |-> TRUE, headers |-> <<>>]
      [] fn \in {"apiDelete", "authenticatedDelete"} ->
            [method |-> "DELETE", body |-> TRUE, headers |-> <<>>]

\* The headers objects a caller passes: up to two keys out of these, in
\* either order.
CallerHeaders ==
    { <<"Authorization", Bearer("evil")>>, <<"authorization", Bearer("evil")>>,
      <<"Content-Type", <<"text/plain">>>>, <<"X-Client", <<"ios">>>> }
HeaderObjects ==
    {<<>>} \cup {<<h>> : h \in CallerHeaders}
    \cup ({<<g, h>> : g, h \in CallerHeaders} \ {<<h, h>> : h \in CallerHeaders})
CallerOptions == [method: {"GET", "PUT"}, body: BOOLEAN, headers: HeaderObjects]

Endpoint == "/api/journal/entries"

\* One call of a helper, from the call to the settling of its promise.
Invoke(fn, options, session, answer) ==
    LET outcome ==
            IF fn \in ApiFns
            THEN apiCall(client.backendUrl, Endpoint, options, answer)
            ELSE authenticatedApiCall(client.backendUrl, session, Endpoint, options, answer)
    IN client' = [fn |-> fn,
                  backendUrl |-> client.backendUrl,
                  session |-> session,
                  options |-> options,
                  answer |-> answer,
                  requests |-> outcome.requests,
                  result |-> outcome.result]

serverVars == <<journalEntries, issuedIds, now, appNow, req, resp, checklistItems, screen, handlers>>

CallGeneric ==
    /\ client.fn = "none"
    /\ \E fn \in {"apiCall", "authenticatedApiCall"}, options \in CallerOptions,
          session \in Sessions, answer \in Answers :
          Invoke(fn, options, session, answer)
    /\ UNCHANGED serverVars

CallVerb ==
    /\ client.fn = "none"
    /\ \E fn \in (ApiFns \cup AuthenticatedFns) \ {"apiCall", "authenticatedApiCall"},
          session \in Sessions, answer \in Answers :
          Invoke(fn, VerbOptions(fn), session, answer)
    /\ UNCHANGED serverVars

\* What a read of a storage slot (localStorage.getItem on the web,
\* SecureStore.getItemAsync elsewhere) gives: a failure, null, or a text.
StoredTexts(texts) ==
    {[status |-> "fails"], [status |-> "absent"]}
    \cup [status: {"text"}, text: texts]

PrimarySlots == StoredTexts({"", "t1"})

SessionBlobs ==
    StoredTexts({"", "{\"token\":\"t2\"}", "{\"token\":\"\"}", "{}", "null",
                 "\"t2\"", "{token"})

\* A text read from a slot that is neither null nor "".
Truthy(slot) == slot.status = "text" /\ slot.text # ""

\* JSON.parse(sessionData): the value, or a SyntaxError.
ParseSession(text) ==
    CASE text = "{\"token\":\"t2\"}" -> [ok |-> TRUE, type |-> "object", token |-> "t2"]
      [] text = "{\"token\":\"\"}" -> [ok |-> TRUE, type |-> "object", token |-> ""]
      [] text = "{}" -> [ok |-> TRUE, type |-> "object", token |-> ""]
      [] text = "null" -> [ok |-> TRUE, type |-> "null", token |-> ""]
      [] text = "\"t2\"" -> [ok |-> TRUE, type |-> "string", token |-> ""]
      [] OTHER -> [ok |-> FALSE, type |-> "none", token |-> ""]

Returned(token) == IF token = "" THEN [kind |-> "null"] ELSE [kind |-> "token", token |-> token]
Thrown == [kind |-> "throw"]

\* const session = JSON.parse(sessionData); return session.token || null;
\* inside its try: a SyntaxError and the TypeError of reading .token of
\* null are caught and the function goes on to its final return null.
SessionToken(blob) ==
    LET session == ParseSession(blob.text)
        tried == IF ~session.ok THEN Thrown
                 ELSE IF session.type = "null" THEN Thrown
                 ELSE Returned(session.token)
    IN IF tried = Thrown THEN Returned("") ELSE tried

\* The body of the outer try of getBearerToken.
BearerTokenLookup(primary, blob) ==
    IF primary.status = "fails" THEN Thrown
    ELSE IF Truthy(primary) THEN Returned(primary.text)
    ELSE IF blob.status = "fails" THEN Thrown
    ELSE IF Truthy(blob) THEN SessionToken(blob)
    ELSE Returned("")

\* getBearerToken without its outer catch.
BearerTokenUncaught(platform, primary, blob) == BearerTokenLookup(primary, blob)

\* getBearerToken(): both platforms run the same steps over their own
\* storage; whatever the outer try throws is caught and null returned.
getBearerToken(platform, primary, blob) ==
    LET tried == BearerTokenLookup(primary, blob)
    IN IF tried = Thrown THEN Returned("") ELSE tried

Platforms == {"web", "ios"}

CallGetBearerToken ==
    /\ client.fn = "none"
    /\ \E platform \in Platforms, primary \in PrimarySlots, blob \in SessionBlobs :
          client' = [fn |-> "getBearerToken",
                     backendUrl |-> client.backendUrl,
                     platform |-> platform,
                     primary |-> primary,
                     blob |-> blob,
                     result |-> getBearerToken(platform, primary, blob)]
    /\ UNCHANGED serverVars

\* The caller has the result; the next call can start.
Settle ==
    /\ client.fn # "none"
    /\ client' = [fn |-> "none", backendUrl |-> client.backendUrl]
    /\ UNCHANGED serverVars

\* BACKEND_URL is fixed when the app is built.
ClientInit ==
    /\ journalEntries = {}
    /\ issuedIds = {}
    /\ now = 0
    /\ appNow = 0
    /\ req = NoReq
    /\ resp = NoResp
    /\ checklistItems = <<>>
    /\ client \in {[fn |-> "none", backendUrl |-> u] : u \in BackendUrls}
    /\ screen = NoScreen
    /\ handlers = NoHandlers

ClientNext == CallGeneric \/ CallVerb \/ CallGetBearerToken \/ Settle

SpecClient == ClientInit /\ [][ClientNext]_vars

----------------------------------------------------------------------------
(* The entry screen (index.ios.tsx) talking to the handlers through        *)
(* apiCall.  Each request the screen has issued stays in screen.inflight,  *)
(* in the order of issue, from the call of apiCall until the awaiting      *)
(* function resumes with the response; the server answers the requests it  *)
(* has not answered yet in any order, and the responses come back in any   *)
(* order.                                                                  *)

MaxActions == 2       \* taps on Save, Delete and a checkbox in one run

ScreenUser == "u1"            \* useAuth().user
ScreenBackendUrl == "https://backend"

\* The session requireAuth resolves for a request: the user of the bearer
\* token in its Authorization header when it carries one, else the user of
\* the session cookie the platform's HTTP stack attached on its own, if any.
TokenUser(token) ==
    CASE token = "t1" -> "u1"
      [] token = "t2" -> "u2"
      [] OTHER -> NoSession

ResolveSession(headers, cookie) ==
    LET values == HeaderValues(headers, "authorization") IN
    IF Len(values) = 1 /\ values[1][1] = "Bearer" /\ TokenUser(values[1][2]) # NoSession
    THEN TokenUser(values[1][2])
    ELSE cookie

\* What the user has typed into the modal when tapping Save; an empty mood
\* is no mood selected.
NoteForm ==
    [title |-> <<"a", SP>>, content |-> <<"c">>, mood |-> <<"h">>,
     entryType |-> "note", items |-> <<>>]
BlankForm ==
    [title |-> <<SP>>, content |-> <<"c">>, mood |-> Empty,
     entryType |-> "note", items |-> <<>>]
ChecklistForm ==
    [title |-> <<"a">>, content |-> Empty, mood |-> Empty,
     entryType |-> "checklist",
     items |-> << [text |-> <<"a">>, completed |-> FALSE],
                  [text |-> <<SP>>, completed |-> FALSE],
                  [text |-> <<Q, "b">>, completed |-> FALSE] >>]
ScreenForms == {NoteForm, BlankForm, ChecklistForm}

\* checklistItems.filter(item => item.text.trim() !== "")
ValidItems(items) == SelectSeq(items, LAMBDA item : Trim(item.text) # Empty)

\* saveEntry's checks: TRUE when it shows an alert and sends nothing.
SaveRefused(form) ==
    \/ Trim(form.title) = Empty
    \/ form.entryType = "note" /\ Trim(form.content) = Empty
    \/ form.entryType = "checklist" /\ ValidItems(form.items) = <<>>

\* JSON.stringify({title: title.trim(), content: contentToSave,
\*                 mood: selectedMood, type: entryType}):
\* an undefined mood is left out.
SaveBody(form) ==
    LET contentToSave == IF form.entryType = "note"
                         THEN Trim(form.content)
                         ELSE JSONStringify(ValidItems(form.items))
        full == [title |-> Trim(form.title), content |-> contentToSave,
                 mood |-> form.mood, type |-> form.entryType]
    IN [f \in (IF form.mood = Empty THEN {"title", "content", "type"}
               ELSE {"title", "content", "mood", "type"}) |-> full[f]]

\* items[itemIndex].completed = !items[itemIndex].completed
ToggleItem(items, i) ==
    [k \in DOMAIN items |->
        IF k = i THEN [items[k] EXCEPT !.completed = ~items[k].completed]
        ELSE items[k]]

\* body: JSON.stringify({content: JSON.stringify(items)})
ToggleBody(entry, i) ==
    [content |-> JSONStringify(ToggleItem(JSONParse(entry.content).items, i))]

\* An empty JSON object as a body.
EmptyBody == [f \in {} |-> Empty]

\* The request apiCall hands to fetch for a call of the screen, which
\* passes a method and a body and no headers.
FetchRequest(method) ==
    apiCall(ScreenBackendUrl, Endpoint,
            [method |-> method, body |-> method # "GET", headers |-> <<>>],
            [kind |-> "rejected"]).requests[1]

\* A call of the screen waiting in apiCall.
Message(op, method, id, index, body) ==
    [op |-> op, id |-> id, index |-> index, body |-> body,
     request |-> FetchRequest(method), answer |-> NoResp]

\* fetchEntries()
ListMessage == Message("list", "GET", 0, 0, EmptyBody)

Remove(seq, k) == [i \in 1..(Len(seq) - 1) |-> IF i < k THEN seq[i] ELSE seq[i + 1]]

\* POSTs of the screen that the server has not answered yet.
CreatesUnanswered ==
    Cardinality({k \in DOMAIN screen.inflight :
                    screen.inflight[k].op = "create" /\ screen.inflight[k].answer = NoResp})

Tappable == screen.mounted /\ screen.actions < MaxActions

\* One more tap, with the messages it sends.
Tapped(messages) ==
    screen' = [screen EXCEPT !.actions = @ + 1, !.inflight = @ \o messages]

\* One more tap, ending in an alert.
TappedAlert == screen' = [screen EXCEPT !.actions = @ + 1, !.alerted = TRUE]

\* The screen mounts for the signed-in user: useEffect calls fetchEntries.
Mount ==
    /\ ~screen.mounted
    /\ \E cookie \in {NoSession, ScreenUser} :
          screen' = [mounted |-> TRUE, cookie |-> cookie, entries |-> <<>>,
                     loading |-> TRUE, alerted |-> FALSE, actions |-> 0,
                     toggles |-> <<>>, inflight |-> <<ListMessage>>]
    /\ UNCHANGED <<journalEntries, issuedIds, now, appNow, req, resp, checklistItems, client, handlers>>

\* saveEntry with editingEntry null; the runs keep to one entry, so the
\* user saves a new one only while none has been created.
SaveNew ==
    /\ Tappable
    /\ issuedIds = {}
    /\ CreatesUnanswered = 0
    /\ \E form \in ScreenForms :
          IF SaveRefused(form) THEN TappedAlert
          ELSE Tapped(<<Message("create", "POST", 0, 0, SaveBody(form))>>)
    /\ UNCHANGED <<journalEntries, issuedIds, now, appNow, req, resp, checklistItems, client, handlers>>

\* openEditModal(entry) on a listed entry, then saveEntry.
SaveEdit ==
    /\ Tappable
    /\ ~screen.loading
    /\ \E e \in DOMAIN screen.entries, form \in ScreenForms :
          IF SaveRefused(form) THEN TappedAlert
          ELSE Tapped(<<Message("update", "PUT", screen.entries[e].id, 0, SaveBody(form))>>)
    /\ UNCHANGED <<journalEntries, issuedIds, now, appNow, req, resp, checklistItems, client, handlers>>

\* deleteEntry(entry.id), confirmed.
ConfirmDelete ==
    /\ Tappable
    /\ ~screen.loading
    /\ \E e \in DOMAIN screen.entries :
          Tapped(<<Message("delete", "DELETE", screen.entries[e].id, 0, EmptyBody)>>)
    /\ UNCHANGED <<journalEntries, issuedIds, now, appNow, req, resp, checklistItems, client, handlers>>

\* toggleChecklistItem(entry.id, index) on one of the first three items the
\* list shows of a checklist whose content parses.
ToggleChecklistItem ==
    /\ Tappable
    /\ ~screen.loading
    /\ \E e \in DOMAIN screen.entries :
          LET entry == screen.entries[e] IN
          /\ entry.type = "checklist"
          /\ JSONParse(entry.content).ok
          /\ \E i \in DOMAIN JSONParse(entry.content).items :
                /\ i <= 3
                \* console.log("User toggled checklist item:", entryId, itemIndex)
                /\ screen' = [screen EXCEPT
                      !.actions = @ + 1,
                      !.toggles = Append(@, <<entry.id, i>>),
                      !.inflight = Append(@, Message("toggle", "PUT", entry.id, i,
                                                     ToggleBody(entry, i)))]
    /\ UNCHANGED <<journalEntries, issuedIds, now, appNow, req, resp, checklistItems, client, handlers>>

\* The server handles one of the requests it has not answered yet.
ServerAnswers ==
    /\ screen.mounted
    /\ \E k \in DOMAIN screen.inflight :
          LET m == screen.inflight[k]
              caller == ResolveSession(m.request.headers, screen.cookie)
          IN
          /\ m.answer = NoResp
          /\ \/ m.op = "list" /\ ListEntries(caller)
             \/ m.op = "create" /\ CreateEntry(caller, m.body)
             \/ m.op \in {"update", "toggle"} /\ UpdateEntry(caller, m.id, m.body)
             \/ m.op = "delete" /\ DeleteEntry(caller, m.id)
          /\ screen' = [screen EXCEPT !.inflight[k].answer = resp']
    /\ UNCHANGED <<now, appNow, checklistItems, client, handlers>>

\* fetchEntries resumes: setEntries(data) on success, an alert otherwise.
ListReturns ==
    /\ screen.mounted
    /\ \E k \in DOMAIN screen.inflight :
          LET m == screen.inflight[k] IN
          /\ m.op = "list"
          /\ m.answer # NoResp
          /\ screen' =
                IF Ok(m.answer.status)
                THEN [screen EXCEPT !.entries = m.answer.body, !.loading = FALSE,
                                    !.inflight = Remove(@, k)]
                ELSE [screen EXCEPT !.alerted = TRUE, !.loading = FALSE,
                                    !.inflight = Remove(@, k)]
    /\ UNCHANGED <<journalEntries, issuedIds, now, appNow, req, resp, checklistItems, client, handlers>>

\* A resumption that patches the list in place of fetching it: the entry
\* the request was about is dropped from the list.
MutationReturnsPatching ==
    /\ screen.mounted
    /\ \E k \in DOMAIN screen.inflight :
          LET m == screen.inflight[k] IN
          /\ m.op # "list"
          /\ m.answer # NoResp
          /\ screen' =
                IF Ok(m.answer.status)
                THEN [screen EXCEPT
                        !.entries = SelectSeq(@, LAMBDA e : e.id # m.id),
                        !.inflight = Remove(@, k)]
                ELSE [screen EXCEPT !.alerted = TRUE, !.inflight = Remove(@, k)]
    /\ UNCHANGED <<journalEntries, issuedIds, now, appNow, req, resp, checklistItems, client, handlers>>

\* saveEntry, deleteEntry's onPress or toggleChecklistItem resumes: on
\* success it calls fetchEntries(), otherwise it shows an alert.
MutationReturns ==
    /\ screen.mounted
    /\ \E k \in DOMAIN screen.inflight :
          LET m == screen.inflight[k] IN
          /\ m.op # "list"
          /\ m.answer # NoResp
          /\ screen' =
                IF Ok(m.answer.status)
                THEN [screen EXCEPT !.inflight = Append(Remove(@, k), ListMessage)]
                ELSE [screen EXCEPT !.alerted = TRUE, !.inflight = Remove(@, k)]
    /\ UNCHANGED <<journalEntries, issuedIds, now, appNow, req, resp, checklistItems, client, handlers>>

ScreenNext ==
    \/ Mount
    \/ SaveNew
    \/ SaveEdit
    \/ ConfirmDelete
    \/ ToggleChecklistItem
    \/ ServerAnswers
    \/ ListReturns
    \/ MutationReturns

\* The row an earlier save of the checklist form has left on the server.
SavedChecklist == InsertValues(1, ScreenUser, SaveBody(ChecklistForm), "checklist", 0)

\* The screen is about to mount; the server stores nothing yet, or the
\* checklist the user saved in an earlier run of the app.
ScreenInit ==
    /\ journalEntries \in {{}, {SavedChecklist}}
    /\ issuedIds = {e.id : e \in journalEntries}
    /\ now = 0
    /\ appNow = 0
    /\ req = NoReq
    /\ resp = NoResp
    /\ checklistItems = <<>>
    /\ client = NoCall
    /\ screen = NoScreen
    /\ handlers = NoHandlers

SpecScreen == ScreenInit /\ [][ScreenNext]_vars

----------------------------------------------------------------------------
(* PUT and DELETE handlers running side by side (journal.ts 103-197).  An  *)
(* async handler gives way at each await: one step runs requireAuth and    *)
(* the select with the code up to the next await, the next step runs the   *)
(* write statement with the code up to the return.  handlers holds one     *)
(* record per invocation: its request, where it stands, what its select    *)
(* returned, the update object it built, and its reply.                    *)

MaxHandlers == 2      \* invocations in one run

RaceOwner == "u1"
RaceId == 1

\* The entry the runs start with: a note of RaceOwner, created at time 0.
RaceEntry ==
    InsertValues(RaceId, RaceOwner, [title |-> <<"a">>, content |-> <<"c">>], "note", 0)

EmptyPatch == [f \in {} |-> Empty]

\* The bodies of the PUTs: one field each, two fields, and a type that the
\* handler rejects.
RacePatches ==
    {[title |-> <<"b">>], [mood |-> <<"h">>], [content |-> <<"d">>, mood |-> <<"g">>],
     [type |-> "list"]}

\* What a handler that returns undefined hands to the framework.
Undefined == [payload |-> "undefined"]

\* The body of the reply to an error thrown out of a handler.
InternalError == [error |-> "Internal Server Error"]

Invocation(op, caller, body) ==
    [op |-> op, caller |-> caller, id |-> RaceId, body |-> body,
     pc |-> "select", existing |-> {}, updateData |-> EmptyPatch,
     statements |-> 0, reply |-> NoResp]

RaceUnchanged == UNCHANGED <<issuedIds, now, req, resp, checklistItems, client, screen>>

Running == 1..Len(handlers)

\* A request reaches the server and its handler is invoked.
Arrives ==
    /\ Len(handlers) < MaxHandlers
    /\ \E caller \in {RaceOwner, NoSession} :
          \/ \E body \in RacePatches :
                handlers' = Append(handlers, Invocation("update", caller, body))
          \/ handlers' = Append(handlers, Invocation("delete", caller, EmptyPatch))
    /\ UNCHANGED <<journalEntries, appNow>>
    /\ RaceUnchanged

Replies(h, status, body) ==
    handlers' = [handlers EXCEPT ![h].pc = "done",
                                 ![h].reply = [status |-> status, body |-> body]]

\* PUT, from requireAuth to the await of the update statement.
UpdateChecks(h) ==
    LET inv == handlers[h]
        existing == SelectByIdAndUser(journalEntries, inv.id, inv.caller)
    IN
    /\ inv.op = "update"
    /\ inv.pc = "select"
    /\ IF inv.caller = NoSession
       THEN Replies(h, 401, Unauthorized)
       ELSE IF existing = {}
       THEN Replies(h, 404, NotFound)
       ELSE IF "type" \in DOMAIN inv.body /\ ~ValidType(inv.body.type)
       THEN Replies(h, 400, BadType)
       ELSE handlers' = [handlers EXCEPT ![h].pc = "write",
                                         ![h].existing = existing,
                                         ![h].statements = 1,
                                         ![h].updateData = UpdateData(inv.body, appNow)]
    /\ UNCHANGED <<journalEntries, appNow>>
    /\ RaceUnchanged

\* A PUT that writes back the row its select returned, patched.
UpdateWritesWholeRow(h) ==
    LET inv == handlers[h]
        updated == {SetColumns(e, inv.updateData) : e \in inv.existing}
    IN
    /\ inv.op = "update"
    /\ inv.pc = "write"
    /\ journalEntries' = {e \in journalEntries : e.id # inv.id} \cup updated
    /\ handlers' = [handlers EXCEPT
           ![h].pc = "done",
           ![h].statements = 2,
           ![h].reply = [status |-> 200, body |-> CHOOSE e \in updated : TRUE]]
    /\ UNCHANGED appNow
    /\ RaceUnchanged

\* PUT, the update statement and the return of updated[0].
UpdateWrites(h) ==
    LET inv == handlers[h]
        \* .set(updateData).where(eq(journalEntries.id, id)).returning()
        updated == {SetColumns(e, inv.updateData) :
                       e \in {x \in journalEntries : x.id = inv.id}}
    IN
    /\ inv.op = "update"
    /\ inv.pc = "write"
    /\ journalEntries' = {e \in journalEntries : e.id # inv.id} \cup updated
    /\ handlers' = [handlers EXCEPT
           ![h].pc = "done",
           ![h].statements = 2,
           ![h].reply = [status |-> 200,
                         body |-> IF updated = {} THEN Undefined
                                  ELSE CHOOSE e \in updated : TRUE]]
    /\ UNCHANGED appNow
    /\ RaceUnchanged

\* DELETE, from requireAuth to the await of the delete statement.
DeleteChecks(h) ==
    LET inv == handlers[h]
        existing == SelectByIdAndUser(journalEntries, inv.id, inv.caller)
    IN
    /\ inv.op = "delete"
    /\ inv.pc = "select"
    /\ IF inv.caller = NoSession
       THEN Replies(h, 401, Unauthorized)
       ELSE IF existing = {}
       THEN Replies(h, 404, NotFound)
       ELSE handlers' = [handlers EXCEPT ![h].pc = "write",
                                         ![h].existing = existing,
                                         ![h].statements = 1]
    /\ UNCHANGED <<journalEntries, appNow>>
    /\ RaceUnchanged

\* DELETE, the delete statement and the return of {success: true}.
DeleteWrites(h) ==
    LET inv == handlers[h] IN
    /\ inv.op = "delete"
    /\ inv.pc = "write"
    /\ journalEntries' = {e \in journalEntries : e.id # inv.id}
    /\ handlers' = [handlers EXCEPT ![h].pc = "done",
                                    ![h].statements = 2,
                                    ![h].reply = [status |-> 200, body |-> [success |-> TRUE]]]
    /\ UNCHANGED appNow
    /\ RaceUnchanged

\* The statement the handler awaits is rejected by the database: it has no
\* effect on the table and the await throws into the handler's try block.
StatementFails(h) ==
    LET inv == handlers[h] IN
    /\ inv.caller # NoSession
    /\ inv.pc \in {"select", "write"}
    /\ handlers' = [handlers EXCEPT ![h].pc = "caught",
                                    ![h].statements = IF inv.pc = "select" THEN 1 ELSE 2]
    /\ UNCHANGED <<journalEntries, appNow>>
    /\ RaceUnchanged

\* A catch block that runs the handler again from its select.
CatchRetries(h) ==
    /\ handlers[h].pc = "caught"
    /\ handlers' = [handlers EXCEPT ![h].pc = "select", ![h].statements = 0]
    /\ UNCHANGED <<journalEntries, appNow>>
    /\ RaceUnchanged

\* catch (error) { app.logger.error(...); throw error; }: the error leaves
\* the handler and the framework answers 500.
CatchRethrows(h) ==
    /\ handlers[h].pc = "caught"
    /\ Replies(h, 500, InternalError)
    /\ UNCHANGED <<journalEntries, appNow>>
    /\ RaceUnchanged

\* The server's clock moves on between two steps.
RaceTick ==
    /\ appNow < MaxTime
    /\ appNow' = appNow + 1
    /\ UNCHANGED <<journalEntries, handlers>>
    /\ RaceUnchanged

RaceInit ==
    /\ journalEntries = {RaceEntry}
    /\ issuedIds = {RaceId}
    /\ now = 0
    /\ appNow = 0
    /\ req = NoReq
    /\ resp = NoResp
    /\ checklistItems = <<>>
    /\ client = NoCall
    /\ screen = NoScreen
    /\ handlers = NoHandlers

RaceNext ==
    \/ Arrives
    \/ \E h \in Running : UpdateChecks(h)
    \/ \E h \in Running : UpdateWrites(h)
    \/ \E h \in Running : DeleteChecks(h)
    \/ \E h \in Running : DeleteWrites(h)
    \/ \E h \in Running : StatementFails(h)
    \/ \E h \in Running : CatchRethrows(h)
    \/ RaceTick

SpecRace == RaceInit /\ [][RaceNext]_vars

----------------------------------------------------------------------------
(* Notions the properties share *)

Columns == {"id", "userId", "title", "content", "mood", "type", "createdAt", "updatedAt"}
Patchable == {"title", "content", "mood", "type"}

StoredIds == {e.id : e \in journalEntries}

\* The reply to a request for an entry that the caller cannot see.
NotFoundReply == [status |-> 404, body |-> NotFound]

\* The request in req has been answered for a signed-in caller.
Answered(op) == req.op = op /\ req.caller \in Users

\* This step is the handling of a request of a signed-in caller.
Handles(op) == req = NoReq /\ req'.op = op /\ req'.caller \in Users

----------------------------------------------------------------------------
\* C1: a GET of a stored entry by a signed-in user who is not its owner is
\* answered 404 with the body of "not found", the very reply a GET of an id
\* that no entry has is answered with; never 200 and never 403.
C1_ForeignGetIsNotFound ==
    Answered("get") =>
        /\ (\E e \in journalEntries : e.id = req.id /\ e.userId # req.caller)
              => resp = NotFoundReply
        /\ (\A e \in journalEntries : e.id # req.id)
              => resp = NotFoundReply

C1_Witness ==
    /\ Answered("get")
    /\ \E e \in journalEntries : e.id = req.id /\ e.userId # req.caller
    /\ resp.status = 404

\* C2: a create answered 201 stores and returns an entry owned by the
\* caller, whatever userId the body carries; and a body with a non-empty
\* title and content and no invalid type is answered 201 whether or not it
\* carries the unknown field.
C2_OwnerIsCaller ==
    Answered("create") =>
        /\ resp.status = 201 =>
              /\ resp.body.userId = req.caller
              /\ resp.body \in journalEntries
              /\ DOMAIN resp.body = Columns
        /\ ( /\ ~Not(req.body, "title")
             /\ ~Not(req.body, "content")
             /\ ("type" \in DOMAIN req.body => req.body.type \in {"note", "checklist"}) )
              => resp.status = 201

C2_Witness ==
    /\ Answered("create")
    /\ "userId" \in DOMAIN req.body
    /\ req.body.userId # req.caller
    /\ resp.status = 201
    /\ resp.body.userId = req.caller

\* C3: a PUT answered 200 leaves each of title, content, mood and type that
\* its body does not carry as it was, and sets each one it carries to the
\* value carried.
C3_PartialMerge ==
    [][ (Handles("update") /\ resp'.status = 200) =>
          \A e \in journalEntries : e.id = req'.id =>
             \E n \in journalEntries' :
                /\ n.id = e.id
                /\ resp'.body = n
                /\ \A f \in Patchable :
                      IF f \in DOMAIN req'.body THEN n[f] = req'.body[f] ELSE n[f] = e[f]
      ]_vars

C3_Witness ==
    /\ Answered("update")
    /\ resp.status = 200
    /\ DOMAIN req.body = {"mood"}
    /\ resp.body.mood = req.body.mood
    /\ resp.body.title = <<"a">>
    /\ resp.body.type = "checklist"
    /\ resp.body.updatedAt > resp.body.createdAt

\* C4: the list a signed-in user is answered holds each of that user's
\* stored entries once and nothing else, with createdAt never increasing
\* from one position to the next.
C4_ListIsOwnEntriesNewestFirst ==
    Answered("list") =>
        /\ resp.status = 200
        /\ {resp.body[i] : i \in DOMAIN resp.body}
              = {e \in journalEntries : e.userId = req.caller}
        /\ Len(resp.body) = Cardinality({e \in journalEntries : e.userId = req.caller})
        /\ \A i, j \in DOMAIN resp.body :
              i < j => resp.body[i].createdAt >= resp.body[j].createdAt

C4_Witness ==
    /\ Answered("list")
    /\ Len(resp.body) = 2
    /\ resp.body[1].createdAt > resp.body[2].createdAt

\* C5: two list requests of the same user with no create, update or delete
\* between them are answered with the same entries in the same order, also
\* when several of the user's entries have the same createdAt.
C5_ListOrderRepeats ==
    [][ ( /\ req.op = "list" /\ resp.status = 200
          /\ req'.op = "list" /\ resp'.status = 200
          /\ req'.caller = req.caller
          /\ journalEntries' = journalEntries )
        => resp'.body = resp.body
      ]_vars

\* C6: a DELETE by a signed-in caller of an id of which the caller stores
\* no entry is answered 404 and changes nothing; a DELETE of the caller's
\* stored entry is answered 200 {success: true} and removes that row and
\* no other; and an id whose entry has been deleted stays out of the table,
\* so that every later GET and DELETE of it is answered 404 and no later
\* list carries it.
C6_DeleteIsPermanent ==
    [][ /\ \A id \in issuedIds \ StoredIds : \A e \in journalEntries' : e.id # id
        /\ Handles("delete") =>
              IF \E e \in journalEntries : e.id = req'.id /\ e.userId = req'.caller
              THEN /\ resp' = [status |-> 200, body |-> [success |-> TRUE]]
                   /\ journalEntries' = {e \in journalEntries : e.id # req'.id}
              ELSE /\ resp' = NotFoundReply
                   /\ journalEntries' = journalEntries
        /\ (Handles("get") /\ req'.id \notin StoredIds) => resp' = NotFoundReply
        /\ Handles("list") =>
              \A i \in DOMAIN resp'.body : resp'.body[i].id \in StoredIds
      ]_vars

\* The second DELETE of an entry: its id was issued, its row is gone, 404.
C6_Witness ==
    /\ Answered("delete")
    /\ req.id \in issuedIds \ StoredIds
    /\ resp = NotFoundReply

\* A field that is missing from the body, empty, or only whitespace.
IsBlank(body, field) == field \notin DOMAIN body \/ Trim(body[field]) = Empty

\* C7: a POST of a signed-in caller whose title or content is missing,
\* empty or only whitespace is answered 400 and stores nothing.
C7_BlankTitleOrContentRejected ==
    [][ (Handles("create") /\ (IsBlank(req'.body, "title") \/ IsBlank(req'.body, "content")))
        => (resp'.status = 400 /\ journalEntries' = journalEntries)
      ]_vars

\* C8: a POST of a signed-in caller, or a PUT by the owner of a stored
\* entry, whose body carries a type other than note and checklist is
\* answered 400 and leaves the table as it was.
C8_InvalidTypeRejected ==
    [][ /\ ( /\ Handles("create")
             /\ "type" \in DOMAIN req'.body
             /\ req'.body.type \notin {"note", "checklist"} )
            => (resp'.status = 400 /\ journalEntries' = journalEntries)
        /\ ( /\ Handles("update")
             /\ \E e \in journalEntries : e.id = req'.id /\ e.userId = req'.caller
             /\ "type" \in DOMAIN req'.body
             /\ req'.body.type \notin {"note", "checklist"} )
            => (resp'.status = 400 /\ journalEntries' = journalEntries)
      ]_vars

\* A PUT with type "list" on the caller's entry, last written before now.
C8_Witness ==
    /\ Answered("update")
    /\ "type" \in DOMAIN req.body
    /\ req.body.type = "list"
    /\ resp.status = 400
    /\ \E e \in journalEntries : e.id = req.id /\ e.userId = req.caller /\ e.updatedAt < now

\* A POST of a signed-in caller with a non-empty title and content and no type.
ValidCreateWithoutType ==
    /\ Handles("create")
    /\ "title" \in DOMAIN req'.body /\ req'.body.title # Empty
    /\ "content" \in DOMAIN req'.body /\ req'.body.content # Empty
    /\ "type" \notin DOMAIN req'.body

\* What C9 says of the reply apart from the mood.
CreatedWithDefaults ==
    /\ resp'.status = 201
    /\ resp'.body.id \notin StoredIds
    /\ journalEntries' = journalEntries \cup {resp'.body}
    /\ resp'.body.type = "note"
    /\ resp'.body.title = req'.body.title
    /\ resp'.body.content = req'.body.content
    /\ resp'.body.createdAt = resp'.body.updatedAt

\* C9 as stated: such a POST is answered 201 with a new id that no stored
\* entry has, type note, the title, content and mood of the body, and
\* createdAt equal to updatedAt.
C9_CreateReturnsSuppliedMood ==
    [][ ValidCreateWithoutType =>
          /\ CreatedWithDefaults
          /\ "mood" \in DOMAIN req'.body => resp'.body.mood = req'.body.mood
      ]_vars

\* C9 as amended: the same, with the mood of the body when that is a
\* non-empty string and a null mood when the body has no mood or an empty one.
C9_CreateDefaults ==
    [][ ValidCreateWithoutType =>
          /\ CreatedWithDefaults
          /\ resp'.body.mood =
                IF "mood" \in DOMAIN req'.body /\ req'.body.mood # Empty
                THEN req'.body.mood ELSE Null
      ]_vars

\* A create with a mood and without a type, answered while another entry
\* is stored.
C9_Witness ==
    /\ Answered("create")
    /\ resp.status = 201
    /\ "type" \notin DOMAIN req.body
    /\ "mood" \in DOMAIN req.body
    /\ resp.body.mood = <<"h">>
    /\ resp.body.type = "note"
    /\ Cardinality(journalEntries) = 2

\* C10: an entry created as a checklist with the serialization of the item
\* sequence s as its content, fetched by id by its owner, comes back with a
\* content that parses, and parses to s: the same items in the same order
\* with the same completed flags.
C10_ChecklistRoundTrip ==
    (Answered("get") /\ resp.status = 200) =>
        /\ resp.body.type = "checklist"
        /\ JSONParse(resp.body.content) = [ok |-> TRUE, items |-> checklistItems]

\* A fetched checklist of two items, one with a quote in its text, one with
\* a backslash, one completed and one not.
C10_Witness ==
    /\ Answered("get")
    /\ resp.status = 200
    /\ checklistItems = << [text |-> <<Q, "b">>, completed |-> TRUE],
                           [text |-> <<BS>>, completed |-> FALSE] >>
    /\ JSONParse(resp.body.content).items = checklistItems

\* The five entry endpoints.
EntryOps == {"list", "get", "create", "update", "delete"}

\* C11: a request to any of the five entry endpoints for which requireAuth
\* resolved no session is answered 401 with no entry in the reply, and the
\* table, rows and fields, is what it was before the request.
C11_UnauthenticatedIsRefused ==
    [][ (req = NoReq /\ req'.op \in EntryOps /\ req'.caller = NoSession)
        => /\ resp'.status = 401
           /\ resp'.body = Unauthorized
           /\ journalEntries' = journalEntries
           /\ issuedIds' = issuedIds
      ]_vars

\* A DELETE without a session of an id that a stored entry has.
C11_Witness ==
    /\ req.op = "delete"
    /\ req.caller = NoSession
    /\ req.id \in StoredIds
    /\ resp.status = 401

\* C12: a stored entry leaves the table or changes in any field only in the
\* handling of a PUT or DELETE of its id by its owner; a PUT or DELETE of
\* its id by another signed-in user is answered 404 and the entry stays
\* stored with every field, updatedAt included, as it was.
C12_OnlyOwnerWrites ==
    [][ \A e \in journalEntries :
          /\ e \notin journalEntries' =>
                /\ req = NoReq
                /\ req'.op \in {"update", "delete"}
                /\ req'.caller = e.userId
                /\ req'.id = e.id
          /\ ( /\ Handles("update") \/ Handles("delete")
               /\ req'.id = e.id
               /\ req'.caller # e.userId )
              => /\ resp'.status = 404
                 /\ resp'.body = NotFound
                 /\ e \in journalEntries'
      ]_vars

\* A PUT of another user's entry, written before now, answered 404.
C12_Witness ==
    /\ Answered("update")
    /\ resp.status = 404
    /\ \E e \in journalEntries :
          e.id = req.id /\ e.userId # req.caller /\ e.updatedAt < appNow

\* C13: every stored entry has a title and a content that are not empty
\* once leading and trailing whitespace is removed.
C13_TitleAndContentNonBlank ==
    \A e \in journalEntries : Trim(e.title) # Empty /\ Trim(e.content) # Empty

\* C15: every stored entry has type note or checklist.
C15_TypeIsNoteOrChecklist ==
    \A e \in journalEntries : e.type \in {"note", "checklist"}

\* An entry that a PUT has just turned into a checklist, after a PUT with
\* type "list" could have been sent since it was created.
C15_Witness ==
    /\ Answered("update")
    /\ resp.status = 200
    /\ "type" \in DOMAIN req.body
    /\ \E e \in journalEntries :
          e.id = req.id /\ e.type = "checklist" /\ e.updatedAt > e.createdAt

\* C16: the content of every stored entry of type checklist parses as a
\* sequence of {text, completed} items.
C16_ChecklistContentDecodes ==
    \A e \in journalEntries : e.type = "checklist" => JSONParse(e.content).ok

\* C14: every stored entry has updatedAt greater than or equal to createdAt.
C14_UpdatedNotBeforeCreated ==
    \A e \in journalEntries : e.updatedAt >= e.createdAt

\* C17: from one state to the next, a stored entry that is still stored has
\* the owner and the createdAt it had, and no two stored entries share an
\* id: whatever request is handled, for whatever caller and body.
C17_IdentityIsFixed ==
    [][ /\ \A e \in journalEntries : \A n \in journalEntries' :
              n.id = e.id => (n.userId = e.userId /\ n.createdAt = e.createdAt)
        /\ \A a, b \in journalEntries' : a.id = b.id => a = b
      ]_vars

\* A PUT answered 200 whose body names another user as userId, on an entry
\* created before now.
C17_Witness ==
    /\ Answered("update")
    /\ resp.status = 200
    /\ "userId" \in DOMAIN req.body
    /\ req.body.userId # req.caller
    /\ resp.body.userId = req.caller
    /\ resp.body.createdAt < resp.body.updatedAt

\* C18: a PUT answered 200 is the owner's and leaves the entry with
\* updatedAt equal to the server's clock at that request, whatever the body;
\* a PUT answered anything else is answered 400, 401 or 404 and leaves
\* every stored entry, updatedAt included, as it was.
C18_UpdatedAtIsRequestTime ==
    [][ (req = NoReq /\ req'.op = "update") =>
          IF resp'.status = 200
          THEN /\ resp'.body.updatedAt = appNow
               /\ resp'.body.userId = req'.caller
               /\ resp'.body.id = req'.id
               /\ resp'.body \in journalEntries'
          ELSE /\ resp'.status \in {400, 401, 404}
               /\ journalEntries' = journalEntries
      ]_vars

\* A PUT with an empty body answered 200, the server's clock reading
\* neither what the entry's updatedAt was nor what the database clock reads.
C18_Witness ==
    /\ Answered("update")
    /\ resp.status = 200
    /\ DOMAIN req.body = {}
    /\ resp.body.updatedAt = appNow
    /\ resp.body.createdAt # appNow
    /\ now # appNow

\* C19: a call of an authenticated helper while the session has no token
\* sends no request and fails with the authentication error; with a token,
\* every request it sends carries Authorization with the one value
\* "Bearer <that token>", whatever headers the caller passed.
C19_BearerTokenAttached ==
    client.fn \in AuthenticatedFns =>
        IF TokenOf(client.session) = ""
        THEN client.requests = <<>> /\ client.result = AuthError
        ELSE \A i \in DOMAIN client.requests :
                HeaderValues(client.requests[i].headers, "authorization")
                    = <<Bearer(TokenOf(client.session))>>

\* The helper called got a response with a status outside 200..299.
AnsweredOutside2xx ==
    /\ client.backendUrl # ""
    /\ client.requests # <<>>
    /\ client.answer.kind = "response"
    /\ ~(client.answer.status \in 200..299)

\* C20 as stated: a call of any helper while the backend URL is empty sends
\* no request and fails with the configuration error; with a URL, a
\* response with a status outside 200..299 makes the call fail with an
\* error of that status and that response text.
C20_ConfigErrorFromEveryHelper ==
    client.fn \in ApiFns \cup AuthenticatedFns =>
        /\ client.backendUrl = "" =>
              client.requests = <<>> /\ client.result = ConfigError
        /\ AnsweredOutside2xx =>
              client.result = ApiError(client.answer.status, client.answer.text)

\* C20 as amended: the same, except that an authenticated helper called
\* while the session has no token fails with the authentication error,
\* with or without a backend URL, and sends no request.
C20_ConfigOrAuthError ==
    client.fn \in ApiFns \cup AuthenticatedFns =>
        /\ client.backendUrl = "" =>
              /\ client.requests = <<>>
              /\ client.result =
                    IF client.fn \in AuthenticatedFns /\ TokenOf(client.session) = ""
                    THEN AuthError ELSE ConfigError
        /\ AnsweredOutside2xx =>
              /\ client.result = ApiError(client.answer.status, client.answer.text)
              /\ Len(client.requests) = 1

\* An authenticated PUT with a token and no backend URL: the configuration
\* error, no request.
C20_Witness ==
    /\ client.fn = "authenticatedPut"
    /\ client.backendUrl = ""
    /\ TokenOf(client.session) = "t1"
    /\ client.requests = <<>>
    /\ client.result = ConfigError

\* C21: getBearerToken returns and never throws: the primary slot's text
\* when that was read and is non-empty; else, when the primary slot was
\* read, the token of the session blob if the blob was read, is non-empty,
\* parses and holds a non-empty token; null in every other case.
C21_BearerTokenOrNull ==
    client.fn = "getBearerToken" =>
        /\ client.result.kind \in {"token", "null"}
        /\ client.result =
              IF client.primary.status = "text" /\ client.primary.text # ""
              THEN [kind |-> "token", token |-> client.primary.text]
              ELSE IF /\ client.primary.status # "fails"
                      /\ client.blob.status = "text"
                      /\ client.blob.text # ""
                      /\ ParseSession(client.blob.text).ok
                      /\ ParseSession(client.blob.text).type = "object"
                      /\ ParseSession(client.blob.text).token # ""
              THEN [kind |-> "token", token |-> ParseSession(client.blob.text).token]
              ELSE [kind |-> "null"]

\* The read of the session blob failed after the primary slot was empty.
C21_Witness ==
    /\ client.fn = "getBearerToken"
    /\ client.primary.status = "absent"
    /\ client.blob.status = "fails"
    /\ client.result = [kind |-> "null"]

\* The caller of the request stores an entry with the request's id.
OwnsTarget(r) == \E e \in journalEntries : e.id = r.id /\ e.userId = r.caller

\* The body of a create or update fails the handler's validation.
FailsValidation(r) ==
    \/ r.op = "create" /\ (Not(r.body, "title") \/ Not(r.body, "content"))
    \/ "type" \in DOMAIN r.body /\ r.body.type \notin {"note", "checklist"}

\* C22: the reply to a request is decided by the first step that fails, in
\* the order authenticate, locate and authorize, validate, mutate: 401
\* without a session whatever the id and body; else 404 for a get, update
\* or delete of an id the caller stores no entry under, whatever the body;
\* else 400 for a create or update whose body fails validation; else
\* success.
C22_FirstFailingStepDecides ==
    [][ (req = NoReq /\ req'.op \in EntryOps) =>
          resp'.status =
             IF req'.caller = NoSession THEN 401
             ELSE IF req'.op \in {"get", "update", "delete"} /\ ~OwnsTarget(req') THEN 404
             ELSE IF req'.op \in {"create", "update"} /\ FailsValidation(req') THEN 400
             ELSE IF req'.op = "create" THEN 201
             ELSE 200
      ]_vars

\* A PUT with type "list" on another user's entry, answered 404.
C22_Witness ==
    /\ Answered("update")
    /\ "type" \in DOMAIN req.body
    /\ req.body.type = "list"
    /\ \E e \in journalEntries : e.id = req.id /\ e.userId # req.caller
    /\ resp.status = 404

\* The token of the screen's user.
ScreenToken == "t1"

\* C23: every request of the entry screen carries Authorization with the
\* bearer token of the signed-in user, and none is answered 401.
C23_ScreenSendsBearerToken ==
    screen.mounted =>
        \A k \in DOMAIN screen.inflight :
            /\ HeaderValues(screen.inflight[k].request.headers, "authorization")
                  = <<Bearer(ScreenToken)>>
            /\ screen.inflight[k].answer.status # 401

\* Mutation requests of the screen answered with success and not yet
\* resumed, and list requests not yet answered.
OkMutations(sc) ==
    Cardinality({k \in DOMAIN sc.inflight :
        /\ sc.inflight[k].op # "list"
        /\ Ok(sc.inflight[k].answer.status)})
ListsWaiting(sc) ==
    Cardinality({k \in DOMAIN sc.inflight :
        sc.inflight[k].op = "list" /\ sc.inflight[k].answer = NoResp})

\* C24: the screen's entry list changes only by becoming the body of a
\* successful list response that was in flight, and each resumption after a
\* successful create, update, delete or toggle sends one new list request.
C24_RefetchAfterMutation ==
    [][ screen.mounted =>
          /\ screen'.entries # screen.entries =>
                \E k \in DOMAIN screen.inflight :
                   /\ screen.inflight[k].op = "list"
                   /\ Ok(screen.inflight[k].answer.status)
                   /\ screen'.entries = screen.inflight[k].answer.body
          /\ OkMutations(screen') < OkMutations(screen) =>
                ListsWaiting(screen') = ListsWaiting(screen) + 1
      ]_vars

\* A create has succeeded after the first list came back empty, and the
\* list request sent after it is on its way.
C24_Witness ==
    /\ screen.mounted
    /\ ~screen.loading
    /\ screen.entries = <<>>
    /\ journalEntries # {}
    /\ OkMutations(screen) = 0
    /\ ListsWaiting(screen) = 1

\* The items the checklist form is saved with, all of them not completed.
SavedItems == ValidItems(ChecklistForm.items)

\* The user has only tapped checkboxes of the checklist saved earlier, each
\* item at most once; every request has been answered with success and
\* every awaiting function has resumed.
ToggledOnceEachAndSettled ==
    /\ screen.mounted
    /\ screen.inflight = <<>>
    /\ ~screen.alerted
    /\ Len(screen.toggles) >= 2
    /\ screen.actions = Len(screen.toggles)
    /\ \A a, b \in DOMAIN screen.toggles : a # b => screen.toggles[a] # screen.toggles[b]

\* C25: after toggles of different items of one checklist, in whatever
\* order requests and refetches went, the stored content has exactly the
\* toggled items completed and the other items as saved.
C25_TogglesAreIndependent ==
    ToggledOnceEachAndSettled =>
        \A e \in journalEntries :
            JSONParse(e.content).items =
                [k \in DOMAIN SavedItems |->
                    [SavedItems[k] EXCEPT
                        !.completed = \E t \in DOMAIN screen.toggles :
                                          screen.toggles[t] = <<e.id, k>>]]

\* C30: when no request of the screen is in flight and none has failed, the
\* screen's list holds exactly the entries the server stores for the user.
C30_SettledListIsServerList ==
    (screen.mounted /\ screen.inflight = <<>> /\ ~screen.alerted /\ ~screen.loading) =>
        /\ {screen.entries[i] : i \in DOMAIN screen.entries}
              = SelectByUser(journalEntries, ScreenUser)
        /\ Len(screen.entries) = Cardinality(SelectByUser(journalEntries, ScreenUser))

----------------------------------------------------------------------------
(* Notions of the side-by-side runs *)

OwnerPut(h) == handlers[h].op = "update" /\ handlers[h].caller = RaceOwner
OwnerDelete(h) == handlers[h].op = "delete" /\ handlers[h].caller = RaceOwner
Finished(h) == handlers[h].pc = "done"
Status(h) == handlers[h].reply.status

\* The select of h ran while the entry was stored and unpatched.
SelectedOriginal(h) == handlers[h].existing = {RaceEntry}

----------------------------------------------------------------------------
\* C26: every PUT that is answered 200 carries the entry row, with the
\* request's id, in its body, also when a DELETE of the same entry by its
\* owner ran between the PUT's ownership check and its update statement.
C26_OkPutCarriesRow ==
    \A h \in Running :
        (handlers[h].op = "update" /\ Finished(h) /\ Status(h) = 200)
            => /\ DOMAIN handlers[h].reply.body = Columns
               /\ handlers[h].reply.body.id = handlers[h].id

----------------------------------------------------------------------------
\* C27: when the statement a handler awaits fails, the step that fails
\* leaves the table alone, the handler's next step is the reply 500 with no
\* further statement issued and the table untouched, and in a run of that
\* one request the table is what it was before the request.
C27_StorageFailureIs500 ==
    [][/\ \A h \in Running :
             /\ (handlers[h].pc \in {"select", "write"} /\ handlers'[h].pc = "caught")
                    => journalEntries' = journalEntries
             /\ (handlers[h].pc = "caught" /\ handlers'[h] # handlers[h])
                    => /\ handlers'[h].pc = "done"
                       /\ handlers'[h].reply = [status |-> 500, body |-> InternalError]
                       /\ handlers'[h].statements = handlers[h].statements
                       /\ journalEntries' = journalEntries
       /\ (Len(handlers') = 1 /\ handlers'[1].pc = "done" /\ handlers'[1].reply.status = 500)
              => journalEntries' = {RaceEntry}
      ]_vars

\* A PUT whose update statement failed has been answered 500.
C27_Witness ==
    \E h \in Running :
        /\ OwnerPut(h)
        /\ Finished(h)
        /\ Status(h) = 500
        /\ handlers[h].statements = 2

----------------------------------------------------------------------------
\* C28: of two DELETE requests of the owner for the one stored entry, at
\* most one is answered 200; the entry is never stored again, so the other
\* has nothing left to delete.
C28_OneDeleteSucceeds ==
    \A h, g \in Running :
        (h # g /\ OwnerDelete(h) /\ OwnerDelete(g) /\ Finished(h) /\ Finished(g))
            => ~(Status(h) = 200 /\ Status(g) = 200)

----------------------------------------------------------------------------
\* C29: two PUTs of the owner on the stored entry whose bodies name
\* disjoint fields, with no other request in the run and no failing
\* statement, are both answered 200 and the stored entry carries the fields
\* of both bodies.
DisjointPuts(h, g) ==
    /\ h # g
    /\ Len(handlers) = 2
    /\ OwnerPut(h) /\ OwnerPut(g)
    /\ DOMAIN handlers[h].body \cap DOMAIN handlers[g].body = {}
    /\ \A k \in {h, g} :
          "type" \in DOMAIN handlers[k].body => ValidType(handlers[k].body.type)
    /\ Finished(h) /\ Finished(g)
    /\ Status(h) # 500 /\ Status(g) # 500

C29_DisjointPatchesBothApply ==
    \A h, g \in Running :
        DisjointPuts(h, g)
            => /\ Status(h) = 200 /\ Status(g) = 200
               /\ \E e \in journalEntries :
                     /\ e.id = RaceId
                     /\ \A k \in {h, g} :
                           \A f \in DOMAIN handlers[k].body : e[f] = handlers[k].body[f]

\* Both PUTs had selected the entry before either wrote.
C29_Witness ==
    \E h, g \in Running :
        /\ DisjointPuts(h, g)
        /\ SelectedOriginal(h) /\ SelectedOriginal(g)
        /\ Status(h) = 200 /\ Status(g) = 200

====
